---- MODULE Spec2Model ----
(***************************************************************************)
(* Model of CofI_KOSMOS/plot_dark_with_distributions.py: the single        *)
(* function plot_dark_with_distributions, its local variables, and the     *)
(* sequence of pyplot calls it issues on the current axes.                 *)
(*                                                                         *)
(* Numbers are exact rationals <<numerator, denominator>>.  n_images       *)
(* ranges over the perfect squares, on which np.sqrt is exact.  Values of  *)
(* the Poisson mass function are kept as bounds on their logarithm, which  *)
(* is enough to decide whether the double-precision result is zero or      *)
(* positive.  A local variable is <<>> until assigned and <<value>> after. *)
(***************************************************************************)
EXTENDS Integers, Sequences, FiniteSets, TLC

\* ------------------------------------------------------------------ bounds
\* n_images ranges over k*k for k in 0..MaxRoot.
MaxRoot == 2
\* Number of calls of the function made on the same axes.
MaxCalls == 2

\* ------------------------------------------------------------------ state
VARIABLES
    image, rn, dark_rate, n_images, exposure, gain,   \* the arguments
    show_poisson, show_gaussian,                      \* the two flags
    pc,                                               \* the line about to run
    expected_mean_dark, pois, pois_x, new_area,       \* the locals
    expected_scale, expected_mean, gauss, gauss_x,
    surface,            \* the pyplot calls made on the current axes, in order
    raised,             \* the exception the last call left to its caller
    base,               \* Len(surface) when the running call was entered
    done                \* the calls that have ended, in order

args == <<image, rn, dark_rate, n_images, exposure, gain>>
flags == <<show_poisson, show_gaussian>>
poisLocals == <<expected_mean_dark, pois, pois_x, new_area>>
gaussLocals == <<expected_scale, expected_mean, gauss, gauss_x>>
vars == <<args, flags, pc, poisLocals, gaussLocals, surface, raised, base, done>>

\* ------------------------------------------------------- exact arithmetic
Abs(i) == IF i < 0 THEN -i ELSE i

RECURSIVE GCD(_, _)
GCD(a, b) == IF b = 0 THEN a ELSE GCD(b, a % b)

\* The rational n/d (d # 0) in lowest terms with a positive denominator.
Rat(n, d) ==
    LET g == GCD(Abs(n), Abs(d))
        s == IF d < 0 THEN -1 ELSE 1
    IN  <<s * (n \div g), s * (d \div g)>>

FromInt(i) == <<i, 1>>

RAdd(p, q) ==
    LET l == (p[2] \div GCD(p[2], q[2])) * q[2]
    IN  Rat(p[1] * (l \div p[2]) + q[1] * (l \div q[2]), l)

RNeg(p) == <<-p[1], p[2]>>

RSub(p, q) == RAdd(p, RNeg(q))

RMul(p, q) ==
    LET g1 == GCD(Abs(p[1]), q[2])
        g2 == GCD(Abs(q[1]), p[2])
    IN  Rat((p[1] \div g1) * (q[1] \div g2), (p[2] \div g2) * (q[2] \div g1))

\* p / q for q # 0; the callers raise ZeroDivisionError themselves.
RDiv(p, q) == RMul(p, Rat(q[2], q[1]))

RLess(p, q) == RSub(p, q)[1] < 0

RAbs(p) == <<Abs(p[1]), p[2]>>

Floor(p) == p[1] \div p[2]

Ceil(p) == -((-p[1]) \div p[2])

\* np.sqrt on a perfect square: the exact root.
Sqrt(n) == CHOOSE r \in 0..n : r * r = n

\* ------------------------------------------------------------- the inputs
ImageVals == { << <<3, 12>> >>, << <<0, 7>>, <<250, -60>> >> }
RnVals == {0, 5}
DarkRateVals == {Rat(1, 10), Rat(1, 1)}
ExposureVals == {30, 3600}
GainVals == {1, 2}
NImagesVals == {k * k : k \in 0..MaxRoot}

\* ------------------------------- program constants and pure computations
\* bins = 100 of plt.hist
HistBins == 100
\* range = (-50, 200) of plt.hist
HistRangeLow == -50
HistRangeHigh == 200
\* np.arange(0, 200, 5)
ArangeStop == 200
ArangeStep == 5
\* num = 100 of np.linspace
LinspaceNum == 100

\* image.flatten(): the rows of the 2-D array one after the other.
RECURSIVE Flatten(_)
Flatten(img) == IF img = <<>> THEN <<>> ELSE Head(img) \o Flatten(Tail(img))

\* Mutant of HistCall: the histogram is density-normalized only when an
\* overlay is drawn over it.
HistCallDensityIfOverlay(data) ==
    [op |-> "hist", x |-> data, bins |-> HistBins, align |-> "mid",
     range |-> <<HistRangeLow, HistRangeHigh>>,
     density |-> (show_poisson \/ show_gaussian),
     label |-> [fmt |-> "Dark frame", arg |-> <<>>]]

\* The arguments of plt.hist.
HistCall(data) ==
    [op |-> "hist", x |-> data, bins |-> HistBins, align |-> "mid",
     range |-> <<HistRangeLow, HistRangeHigh>>, density |-> TRUE,
     label |-> [fmt |-> "Dark frame", arg |-> <<>>]]

\* dark_rate * exposure / gain, gain # 0.
ExpectedMeanDark(dr, ex, g) == RDiv(RMul(dr, FromInt(ex)), FromInt(g))

\* Mutant of PoissonMean: a negative mean is clamped to 0.
PoissonMeanClamped(emd, n) ==
    LET m == RSub(emd, FromInt(3 * n)) IN IF m[1] < 0 THEN <<0, 1>> ELSE m

\* The argument of stats.poisson.
PoissonMean(emd, n) == RSub(emd, FromInt(3 * n))

\* np.arange(0, 200, 5)
PoisX == [i \in 1..(ArangeStop \div ArangeStep) |-> ArangeStep * (i - 1)]

\* rn / gain * np.sqrt(n_images)
ExpectedScale(r, g, n) == RMul(RDiv(FromInt(r), FromInt(g)), FromInt(Sqrt(n)))

\* expected_mean_dark * n_images
ExpectedMean(emd, n) == RMul(emd, FromInt(n))

\* loc and scale of stats.norm.
GaussLoc(em) == RSub(em, FromInt(3))

GaussScale(es) == RAdd(es, FromInt(3))

\* Mutant of GaussXStart: the window starts 3 scales below the mean of the
\* Gaussian as constructed.
GaussXStartFromGauss(em, es) ==
    RSub(RSub(em, FromInt(3)), RMul(FromInt(3), RAdd(es, FromInt(3))))

\* First and last argument of np.linspace.
GaussXStart(em, es) ==
    RAdd(RSub(em, RMul(FromInt(3), es)), FromInt(3))

GaussXStop(em, es) ==
    RAdd(RAdd(em, RMul(FromInt(3), es)), FromInt(3))

\* np.linspace(start, stop, num): start + i*step, the last point set to stop.
Linspace(start, stop, num) ==
    LET step == RDiv(RSub(stop, start), FromInt(num - 1))
    IN  [i \in 1..num |->
            IF i = num THEN stop
            ELSE RAdd(start, RMul(FromInt(i - 1), step))]

\* The integers of np.arange as the floats true division makes of them.
AsFloats(ks) == [i \in 1..Len(ks) |-> FromInt(ks[i])]

\* array / n_images, n_images # 0.
DivideAll(xs, n) == [i \in 1..Len(xs) |-> RDiv(xs[i], FromInt(n))]

\* "{:5.2f}".format(v): v in hundredths, rounded half to even.
Format2f(v) ==
    LET t == RMul(v, FromInt(100))
        f == Floor(t)
        twice == RSub(RMul(t, FromInt(2)), FromInt(2 * f))
    IN  IF twice[1] < twice[2] THEN f
        ELSE IF twice[1] > twice[2] THEN f + 1
        ELSE IF f % 2 = 0 THEN f ELSE f + 1

PoissonLabel(emd) ==
    [fmt |-> "Poisson distribution, mean of {:5.2f} counts", arg |-> <<Format2f(emd)>>]

GaussianLabel ==
    [fmt |-> "Gaussian, standard dev is read noise in counts", arg |-> <<>>]

XLabelText(ex) == [fmt |-> "Dark counts in {} sec exposure", arg |-> <<ex>>]

YLabelText == [fmt |-> "Fraction of pixels (area normalized to 1)", arg |-> <<>>]

\* ------------------------------------- double-precision Poisson masses
\* Logarithms are in thousandths; ln 2 lies between 0.693 and 0.694.
RECURSIVE Flog2(_)
Flog2(n) == IF n < 2 THEN 0 ELSE 1 + Flog2(n \div 2)

LnLo(n) == 693 * Flog2(n)

LnHi(n) == IF n = 2 ^ Flog2(n) THEN 694 * Flog2(n) ELSE 694 * (Flog2(n) + 1)

\* Flog2(1) + ... + Flog2(k), the numbers taken 2^e at a time from j = 2^e.
RECURSIVE SumFlog2From(_, _)
SumFlog2From(e, k) ==
    IF 2 ^ (e + 1) - 1 <= k THEN e * 2 ^ e + SumFlog2From(e + 1, k)
    ELSE e * (k - 2 ^ e + 1)

\* Bounds on gammaln(k + 1) = ln 1 + ... + ln k.
LnFactLo(k) == IF k < 2 THEN 0 ELSE 693 * SumFlog2From(0, k)

LnFactHi(k) ==
    IF k < 2 THEN 0 ELSE 694 * (SumFlog2From(0, k) + (k - 1) - Flog2(k))

\* exp(x) is the double 0.0 below ln(2^-1075) = -745.13 and positive above.
ExpIsZeroBelow == -746 * 1000
ExpIsPositiveAbove == -745 * 1000

\* A double: nan, 0.0, or exp(x) rounded, for some x with lo <= 1000 x <= hi.
NaN == [kind |-> "nan", lo |-> 0, hi |-> 0]
Zero == [kind |-> "zero", lo |-> 0, hi |-> 0]
Exp(lo, hi) == [kind |-> "exp", lo |-> lo, hi |-> hi]

\* pois.pmf(k) of stats.poisson(mu): nan for mu < 0 (the argument check
\* fails), else exp(xlogy(k, mu) - gammaln(k + 1) - mu).
Pmf(k, mu) ==
    IF mu[1] < 0 THEN NaN
    ELSE IF mu[1] = 0 THEN (IF k = 0 THEN Exp(0, 0) ELSE Zero)
    ELSE LET lnLo == LnLo(mu[1]) - LnHi(mu[2])
             lnHi == LnHi(mu[1]) - LnLo(mu[2])
             m == RMul(mu, FromInt(1000))
         IN  Exp(k * lnLo - Ceil(m) - LnFactHi(k),
                 k * lnHi - Floor(m) - LnFactLo(k))

\* 1 / n_images * v, n_images >= 1.
Scaled(v, n) ==
    IF v.kind = "exp" THEN Exp(v.lo - LnHi(n), v.hi - LnLo(n)) ELSE v

CertainlyZero(v) == v.kind = "zero" \/ (v.kind = "exp" /\ v.hi < ExpIsZeroBelow)

CertainlyPositive(v) == v.kind = "exp" /\ v.lo > ExpIsPositiveAbove

\* np.sum of non-negative doubles, up to what its sign needs.
Sum(vs) ==
    IF \E i \in 1..Len(vs) : vs[i].kind = "nan" THEN "nan"
    ELSE IF \E i \in 1..Len(vs) : CertainlyPositive(vs[i]) THEN "positive"
    ELSE IF \A i \in 1..Len(vs) : CertainlyZero(vs[i]) THEN "zero"
    ELSE "undetermined"

\* Mutant of NewArea: 1 / n_images is an integer division, 0 for n_images > 1.
NewAreaFloorDivision(mu, xs, n) ==
    IF n > 1 /\ mu[1] >= 0 THEN "zero"
    ELSE Sum([i \in 1..Len(xs) |-> Pmf(xs[i], mu)])

\* np.sum(1 / n_images * pois.pmf(pois_x)), n_images >= 1.
NewArea(mu, xs, n) == Sum([i \in 1..Len(xs) |-> Scaled(Pmf(xs[i], mu), n)])

\* ------------------------------------------------------------ the call
NoLocals ==
    /\ expected_mean_dark' = <<>> /\ pois' = <<>> /\ pois_x' = <<>>
    /\ new_area' = <<>> /\ expected_scale' = <<>> /\ expected_mean' = <<>>
    /\ gauss' = <<>> /\ gauss_x' = <<>>

\* What the caller can tell of a call that has ended.
Ended(exc, to) ==
    [show_poisson |-> show_poisson, show_gaussian |-> show_gaussian,
     from |-> base + 1, to |-> to, raised |-> exc]

Init ==
    /\ image \in ImageVals /\ rn \in RnVals /\ dark_rate \in DarkRateVals
    /\ n_images \in NImagesVals /\ exposure \in ExposureVals /\ gain \in GainVals
    /\ show_poisson = TRUE /\ show_gaussian = TRUE
    /\ pc = "idle"
    /\ expected_mean_dark = <<>> /\ pois = <<>> /\ pois_x = <<>> /\ new_area = <<>>
    /\ expected_scale = <<>> /\ expected_mean = <<>> /\ gauss = <<>> /\ gauss_x = <<>>
    /\ surface = <<>> /\ raised = <<>> /\ base = 0 /\ done = <<>>

\* The caller calls plot_dark_with_distributions(image, rn, dark_rate, ...,
\* show_poisson = sp, show_gaussian = sg) on the current axes.
Invoke(sp, sg) ==
    /\ pc = "idle" /\ Len(done) < MaxCalls
    /\ show_poisson' = sp /\ show_gaussian' = sg
    /\ base' = Len(surface) /\ raised' = <<>>
    /\ pc' = "hist"
    /\ UNCHANGED <<args, poisLocals, gaussLocals, surface, done>>

\* line 54
Hist ==
    /\ pc = "hist"
    /\ surface' = Append(surface, HistCall(Flatten(image)))
    /\ pc' = "expected_mean_dark"
    /\ UNCHANGED <<args, flags, poisLocals, gaussLocals, raised, base, done>>

\* line 57
MeanDark ==
    /\ pc = "expected_mean_dark"
    /\ expected_mean_dark' = <<ExpectedMeanDark(dark_rate, exposure, gain)>>
    /\ pc' = "pois"
    /\ UNCHANGED <<args, flags, pois, pois_x, new_area, gaussLocals, surface,
                   raised, base, done>>

\* line 58
PoisConstruct ==
    /\ pc = "pois"
    /\ pois' = <<PoissonMean(expected_mean_dark[1], n_images)>>
    /\ pc' = "pois_x"
    /\ UNCHANGED <<args, flags, expected_mean_dark, pois_x, new_area, gaussLocals,
                   surface, raised, base, done>>

\* line 59
PoisXAssign ==
    /\ pc = "pois_x"
    /\ pois_x' = <<PoisX>>
    /\ pc' = "new_area"
    /\ UNCHANGED <<args, flags, expected_mean_dark, pois, new_area, gaussLocals,
                   surface, raised, base, done>>

\* Mutant of NewAreaAssign: the Poisson normalization is computed only when
\* show_poisson is set.
NewAreaAssignGated ==
    /\ pc = "new_area"
    /\ IF ~show_poisson
       THEN /\ pc' = "show_poisson"
            /\ UNCHANGED <<poisLocals, gaussLocals, raised, done>>
       ELSE IF n_images = 0
       THEN /\ raised' = <<[type |-> "ZeroDivisionError", at |-> "new_area"]>>
            /\ done' = Append(done, Ended(raised', Len(surface)))
            /\ pc' = "idle"
            /\ NoLocals
       ELSE /\ new_area' = <<NewArea(pois[1], pois_x[1], n_images)>>
            /\ pc' = "show_poisson"
            /\ UNCHANGED <<expected_mean_dark, pois, pois_x, gaussLocals, raised, done>>
    /\ UNCHANGED <<args, flags, surface, base>>

\* Mutant of NewAreaAssign: n_images = 0 is guarded, the divisor left nan.
NewAreaAssignGuarded ==
    /\ pc = "new_area"
    /\ new_area' = <<IF n_images = 0 THEN "nan"
                     ELSE NewArea(pois[1], pois_x[1], n_images)>>
    /\ pc' = "show_poisson"
    /\ UNCHANGED <<args, flags, expected_mean_dark, pois, pois_x, gaussLocals,
                   surface, raised, base, done>>

\* line 60: 1 / n_images raises ZeroDivisionError before the masses are
\* evaluated; nothing in the function catches it.
NewAreaAssign ==
    /\ pc = "new_area"
    /\ IF n_images = 0
       THEN /\ raised' = <<[type |-> "ZeroDivisionError", at |-> "new_area"]>>
            /\ done' = Append(done, Ended(raised', Len(surface)))
            /\ pc' = "idle"
            /\ NoLocals
       ELSE /\ new_area' = <<NewArea(pois[1], pois_x[1], n_images)>>
            /\ pc' = "show_poisson"
            /\ UNCHANGED <<expected_mean_dark, pois, pois_x, gaussLocals, raised, done>>
    /\ UNCHANGED <<args, flags, surface, base>>

\* Mutant of PoissonPlot: the curve is drawn whatever show_poisson is.
PoissonPlotUngated ==
    /\ pc = "show_poisson"
    /\ surface' = Append(surface,
                     [op |-> "plot", x |-> DivideAll(AsFloats(pois_x[1]), n_images),
                      y |-> [pmf |-> pois[1], over |-> new_area[1]],
                      label |-> PoissonLabel(expected_mean_dark[1])])
    /\ pc' = "show_gaussian"
    /\ UNCHANGED <<args, flags, poisLocals, gaussLocals, raised, base, done>>

\* Mutant of PoissonPlot: the legend is created inside the branch, right
\* after the curve.
PoissonPlotThenLegend ==
    /\ pc = "show_poisson"
    /\ surface' =
         IF show_poisson
         THEN surface \o
                <<[op |-> "plot", x |-> DivideAll(AsFloats(pois_x[1]), n_images),
                   y |-> [pmf |-> pois[1], over |-> new_area[1]],
                   label |-> PoissonLabel(expected_mean_dark[1])],
                  [op |-> "legend"]>>
         ELSE surface
    /\ pc' = "show_gaussian"
    /\ UNCHANGED <<args, flags, poisLocals, gaussLocals, raised, base, done>>

\* lines 62-64
PoissonPlot ==
    /\ pc = "show_poisson"
    /\ surface' =
         IF show_poisson
         THEN Append(surface,
                     [op |-> "plot", x |-> DivideAll(AsFloats(pois_x[1]), n_images),
                      y |-> [pmf |-> pois[1], over |-> new_area[1]],
                      label |-> PoissonLabel(expected_mean_dark[1])])
         ELSE surface
    /\ pc' = "show_gaussian"
    /\ UNCHANGED <<args, flags, poisLocals, gaussLocals, raised, base, done>>

\* lines 66-75
GaussianPlot ==
    /\ pc = "show_gaussian"
    /\ IF show_gaussian
       THEN /\ expected_scale' = <<ExpectedScale(rn, gain, n_images)>>
            /\ expected_mean' = <<ExpectedMean(expected_mean_dark[1], n_images)>>
            /\ gauss' = <<[loc |-> GaussLoc(expected_mean'[1]),
                           scale |-> GaussScale(expected_scale'[1])]>>
            /\ gauss_x' = <<Linspace(GaussXStart(expected_mean'[1], expected_scale'[1]),
                                     GaussXStop(expected_mean'[1], expected_scale'[1]),
                                     LinspaceNum)>>
            /\ surface' = Append(surface,
                     [op |-> "plot", x |-> DivideAll(gauss_x'[1], n_images),
                      y |-> [pdf |-> gauss'[1], times |-> n_images],
                      label |-> GaussianLabel])
       ELSE UNCHANGED <<gaussLocals, surface>>
    /\ pc' = "xlabel"
    /\ UNCHANGED <<args, flags, poisLocals, raised, base, done>>

\* line 77
XLabel ==
    /\ pc = "xlabel"
    /\ surface' = Append(surface, [op |-> "xlabel", text |-> XLabelText(exposure)])
    /\ pc' = "ylabel"
    /\ UNCHANGED <<args, flags, poisLocals, gaussLocals, raised, base, done>>

\* line 78
YLabel ==
    /\ pc = "ylabel"
    /\ surface' = Append(surface, [op |-> "ylabel", text |-> YLabelText])
    /\ pc' = "grid"
    /\ UNCHANGED <<args, flags, poisLocals, gaussLocals, raised, base, done>>

\* line 79
Grid ==
    /\ pc = "grid"
    /\ surface' = Append(surface, [op |-> "grid"])
    /\ pc' = "legend"
    /\ UNCHANGED <<args, flags, poisLocals, gaussLocals, raised, base, done>>

\* line 80, after which the function returns None
Legend ==
    /\ pc = "legend"
    /\ surface' = Append(surface, [op |-> "legend"])
    /\ done' = Append(done, Ended(<<>>, Len(surface')))
    /\ pc' = "idle"
    /\ NoLocals
    /\ UNCHANGED <<args, flags, raised, base>>

Next ==
    \/ \E sp \in BOOLEAN, sg \in BOOLEAN : Invoke(sp, sg)
    \/ Hist
    \/ MeanDark
    \/ PoisConstruct
    \/ PoisXAssign
    \/ NewAreaAssign
    \/ PoissonPlot
    \/ GaussianPlot
    \/ XLabel
    \/ YLabel
    \/ Grid
    \/ Legend

Spec == Init /\ [][Next]_vars

\* ------------------------------------------------- reading the surface
IsHist(c) == c.op = "hist"

IsPoissonCurve(c) == c.op = "plot" /\ c.label = PoissonLabel(ExpectedMeanDark(dark_rate, exposure, gain))

IsGaussianCurve(c) == c.op = "plot" /\ c.label = GaussianLabel

IsCurve(c) == c.op = "plot"

IsDecoration(c) == c.op \in {"xlabel", "ylabel", "grid", "legend"}

\* The calls an ended call made, and those the running call has made so far.
Drawn(e) == SubSeq(surface, e.from, e.to)

Running == SubSeq(surface, base + 1, Len(surface))

Count(cs, kind) ==
    Cardinality({i \in 1..Len(cs) :
        \/ kind = "hist" /\ IsHist(cs[i])
        \/ kind = "poisson" /\ IsPoissonCurve(cs[i])
        \/ kind = "gaussian" /\ IsGaussianCurve(cs[i])
        \/ kind = "curve" /\ IsCurve(cs[i])})

Completed(e) == e.raised = <<>>

AfterNormalization ==
    pc \in {"show_poisson", "show_gaussian", "xlabel", "ylabel", "grid", "legend"}

\* ------------------------------------------------------------------ C1
\* C1: every call that completes has drawn exactly one histogram series, one
\* Poisson curve iff show_poisson and one Gaussian curve iff show_gaussian,
\* and no other curve; with both flags off, one histogram and no curve.
C1_OneSeriesPerEnabledFlag ==
    \A i \in DOMAIN done :
        Completed(done[i]) =>
            /\ Count(Drawn(done[i]), "hist") = 1
            /\ Count(Drawn(done[i]), "poisson") = (IF done[i].show_poisson THEN 1 ELSE 0)
            /\ Count(Drawn(done[i]), "gaussian") = (IF done[i].show_gaussian THEN 1 ELSE 0)
            /\ Count(Drawn(done[i]), "curve") =
                 Count(Drawn(done[i]), "poisson") + Count(Drawn(done[i]), "gaussian")

\* A call with both overlays disabled has completed, after one with both enabled.
C1_Witness ==
    /\ Len(done) = 2
    /\ Completed(done[1]) /\ done[1].show_poisson /\ done[1].show_gaussian
    /\ Completed(done[2]) /\ ~done[2].show_poisson /\ ~done[2].show_gaussian
    /\ Count(Drawn(done[2]), "curve") = 0

\* ------------------------------------------------------------------ C2
HistCallsOf(e) == SelectSeq(Drawn(e), IsHist)

DecorationsOf(e) == SelectSeq(Drawn(e), IsDecoration)

\* C2: for fixed image, rn, dark_rate, n_images, exposure and gain, any two
\* calls made with different flags issue the same histogram call (flattened
\* data, 100 bins, range (-50, 200), density, label "Dark frame") and the same
\* x-label, y-label, grid and legend calls.
C2_FlagsLeaveHistogramAndAxes ==
    \A i \in DOMAIN done : \A j \in DOMAIN done :
        /\ HistCallsOf(done[i]) = HistCallsOf(done[j])
        /\ DecorationsOf(done[i]) = DecorationsOf(done[j])
        /\ \A k \in DOMAIN HistCallsOf(done[i]) :
              LET h == HistCallsOf(done[i])[k]
              IN  /\ h.bins = 100 /\ h.range = <<-50, 200>> /\ h.density
                  /\ h.label.fmt = "Dark frame"
                  /\ Len(h.x) = Len(image) * Len(image[1])
                  /\ \A r \in DOMAIN image : \A c \in DOMAIN image[r] :
                        h.x[(r - 1) * Len(image[1]) + c] = image[r][c]

\* Two completed calls on the same arguments that differ in both flags.
C2_Witness ==
    \E i \in DOMAIN done : \E j \in DOMAIN done :
        /\ Completed(done[i]) /\ Completed(done[j])
        /\ done[i].show_poisson # done[j].show_poisson
        /\ done[i].show_gaussian # done[j].show_gaussian
        /\ Len(DecorationsOf(done[j])) = 4

\* ------------------------------------------------------------------ C3
\* C3 as stated: with show_poisson false the Poisson distribution is not
\* constructed and the normalization divisor is not computed.
C3_PoissonStepsGated ==
    (pc # "idle" /\ ~show_poisson) => (pois = <<>> /\ new_area = <<>>)

\* C3 as amended: every call that gets past line 60 has constructed the
\* Poisson distribution, set the sample points and computed the divisor,
\* whatever show_poisson is; the flag gates only the drawing of the curve.
C3_OnlyThePoissonCurveIsGated ==
    /\ AfterNormalization => (pois # <<>> /\ pois_x # <<>> /\ new_area # <<>>)
    /\ (pc # "idle" /\ Count(Running, "poisson") > 0) => show_poisson
    /\ (AfterNormalization /\ pc # "show_poisson" /\ show_poisson) =>
          Count(Running, "poisson") = 1

\* The divisor has been computed in a call with show_poisson false.
C3_Witness ==
    pc = "show_gaussian" /\ ~show_poisson /\ new_area # <<>> /\ pois # <<>>

\* ------------------------------------------------------------------ C4
\* C4: a call with n_images = 0 ends with the ZeroDivisionError of line 60,
\* which reaches the caller as raised; it never gets past that line.
C4_ZeroImagesRaises ==
    n_images = 0 =>
        /\ ~AfterNormalization
        /\ \A i \in DOMAIN done :
              done[i].raised = <<[type |-> "ZeroDivisionError", at |-> "new_area"]>>
        /\ (pc = "idle" /\ done # <<>>) => raised = done[Len(done)].raised

\* A call with n_images = 0 has ended.
C4_Witness ==
    n_images = 0 /\ pc = "idle" /\ Len(done) >= 1 /\ raised # <<>>

First(xs) == xs[1]

Last(xs) == xs[Len(xs)]

C7_WindowSymmetricAboutMean ==
    (gauss_x # <<>> /\ n_images > 0) =>
        RAbs(RSub(First(gauss_x[1]), gauss[1].loc))
            = RAbs(RSub(Last(gauss_x[1]), gauss[1].loc))

\* ------------------------------------------------------------------ C8
\* C8: for n_images >= 1 the mean given to stats.norm equals the mean given
\* to stats.poisson.
C8_GaussianMeanIsPoissonMean ==
    (gauss # <<>> /\ n_images >= 1) => gauss[1].loc = pois[1]

\* ------------------------------------------------------------------ C9
\* C9 as stated: the divisor is strictly positive whenever n_images > 0 and
\* the Poisson mean is positive.
C9_DivisorPositive ==
    (new_area # <<>> /\ n_images > 0 /\ pois[1][1] > 0) => new_area[1] = "positive"

\* C9 as amended: the divisor is strictly positive whenever
\* 1 <= n_images <= 10^6 and 0 < Poisson mean <= 700, where exp(-mean)/n_images
\* is a positive double.
C9_DivisorPositiveForModerateMean ==
    (/\ new_area # <<>>
     /\ n_images >= 1 /\ n_images <= 1000000
     /\ pois[1][1] > 0 /\ pois[1][1] <= 700 * pois[1][2]) => new_area[1] = "positive"

\* The divisor has been computed for a Poisson mean of 18 and 4 images.
C9_Witness ==
    new_area = <<"positive">> /\ pois = << <<18, 1>> >> /\ n_images = 4

\* ----------------------------------------------------------------- C10
Kind(c) ==
    IF IsPoissonCurve(c) THEN "poisson"
    ELSE IF IsGaussianCurve(c) THEN "gaussian"
    ELSE c.op

Kinds(cs) == [i \in 1..Len(cs) |-> Kind(cs[i])]

InOrder(sp, sg) ==
    <<"hist">> \o (IF sp THEN <<"poisson">> ELSE <<>>)
               \o (IF sg THEN <<"gaussian">> ELSE <<>>)
               \o <<"xlabel", "ylabel", "grid", "legend">>

IsPrefix(a, b) == Len(a) <= Len(b) /\ SubSeq(b, 1, Len(a)) = a

\* C10: within one call the histogram is drawn first, then the Poisson
\* distribution and divisor are computed, then the Poisson curve (if enabled),
\* the Gaussian curve (if enabled), x-label, y-label, grid and the legend,
\* once and last; a call that fails in the normalization step has drawn the
\* histogram and nothing else.
C10_FixedOrder ==
    /\ \A i \in DOMAIN done :
          Kinds(Drawn(done[i])) =
             IF Completed(done[i])
             THEN InOrder(done[i].show_poisson, done[i].show_gaussian)
             ELSE <<"hist">>
    /\ pc # "idle" => IsPrefix(Kinds(Running), InOrder(show_poisson, show_gaussian))
    /\ (pois # <<>> \/ new_area # <<>>) => Kinds(Running)[1] = "hist"
    /\ (pc # "idle" /\ Len(Running) > 1) => new_area # <<>>
    /\ (pc = "idle" /\ raised # <<>>) =>
          /\ raised[1].at = "new_area"
          /\ Kinds(Drawn(done[Len(done)])) = <<"hist">>

\* A call with both overlays has completed, its seven calls in order.
C10_Witness ==
    \E i \in DOMAIN done :
        /\ Completed(done[i])
        /\ Kinds(Drawn(done[i])) =
             <<"hist", "poisson", "gaussian", "xlabel", "ylabel", "grid", "legend">>

====
